---- MODULE Spec2Model ----
(***************************************************************************)
(* Model of the chess bot of src/include/bot.hpp: the static evaluator,    *)
(* the incremental evaluation, the move orderer, the alpha-beta search and *)
(* the parallel dispatcher with its move selector.                         *)
(*                                                                         *)
(* The rules engine (chess.hpp: Board, Move, movegen) is an external       *)
(* library.  It is modelled here as chess played on a board of BoardW      *)
(* files and BoardH ranks, with the library's move encoding: a move is     *)
(* (from, to, type, promotion type), type one of NORMAL, PROMOTION,        *)
(* ENPASSANT, CASTLING, and a castling move is encoded "king takes own     *)
(* rook" (from = the king's square, to = the rook's square).  The          *)
(* fifty-move and repetition draws of isGameOver are left out.             *)
(***************************************************************************)
EXTENDS Integers, Sequences, FiniteSets, TLC

\* ------------------------------------------------------------------ bounds

\* Files and ranks of the model's board (8 and 8 in chess).
BoardW == 4
BoardH == 5

\* SEARCH_DEPTH is 8 in bot.hpp:16; the model searches to a smaller depth.
SEARCH_DEPTH == 3

\* NTHREADS is 32 in bot.hpp:15; the model draws it from 1..MaxNThreads.
MaxNThreads == 4

\* ------------------------------------------------------- program constants

INT_MAX == 2147483647
INT_MIN == -INT_MAX - 1

MATE_SCORE == INT_MAX \div 2

\* --------------------------------------------------- chess.hpp: the pieces

NONE == "-"
WhitePieces == {"P", "N", "B", "R", "Q", "K"}
BlackPieces == {"p", "n", "b", "r", "q", "k"}
Pieces == WhitePieces \cup BlackPieces \cup {NONE}

WHITE == "WHITE"
BLACK == "BLACK"

ColorOf(piece) ==
    IF piece \in WhitePieces THEN WHITE
    ELSE IF piece \in BlackPieces THEN BLACK ELSE "NOCOLOR"

Opp(color) == IF color = WHITE THEN BLACK ELSE WHITE

\* chess::PieceType::underlying, in the library's order: the index into MVV_LVA_LUT.
PAWN == 1
KNIGHT == 2
BISHOP == 3
ROOK == 4
QUEEN == 5
KING == 6
NOTYPE == 7

TypeOf(piece) ==
    CASE piece \in {"P", "p"} -> PAWN
      [] piece \in {"N", "n"} -> KNIGHT
      [] piece \in {"B", "b"} -> BISHOP
      [] piece \in {"R", "r"} -> ROOK
      [] piece \in {"Q", "q"} -> QUEEN
      [] piece \in {"K", "k"} -> KING
      [] OTHER -> NOTYPE

\* chess::Piece(type, color)
MkPiece(type, color) ==
    LET w == CASE type = PAWN -> "P" [] type = KNIGHT -> "N" [] type = BISHOP -> "B"
               [] type = ROOK -> "R" [] type = QUEEN -> "Q" [] type = KING -> "K"
               [] OTHER -> NONE
        b == CASE type = PAWN -> "p" [] type = KNIGHT -> "n" [] type = BISHOP -> "b"
               [] type = ROOK -> "r" [] type = QUEEN -> "q" [] type = KING -> "k"
               [] OTHER -> NONE
    IN  IF color = WHITE THEN w ELSE b

\* ---------------------------------------------------- chess.hpp: the board

NSQ == BoardW * BoardH
Squares == 0 .. (NSQ - 1)
NO_SQ == NSQ

FileOf(s) == s % BoardW
RankOf(s) == s \div BoardW
Sq(f, r) == r * BoardW + f
OnBoard(f, r) == f >= 0 /\ f < BoardW /\ r >= 0 /\ r < BoardH

\* Home squares of the castling king and rook, and where castling puts them.
KingHome(color) == IF color = WHITE THEN Sq(0, 0) ELSE Sq(0, BoardH - 1)
RookHome(color) == IF color = WHITE THEN Sq(3, 0) ELSE Sq(3, BoardH - 1)
KingCastled(color) == IF color = WHITE THEN Sq(2, 0) ELSE Sq(2, BoardH - 1)
RookCastled(color) == IF color = WHITE THEN Sq(1, 0) ELSE Sq(1, BoardH - 1)

PawnDir(color) == IF color = WHITE THEN 1 ELSE -1
PawnStart(color) == IF color = WHITE THEN 1 ELSE BoardH - 2
PromoRank(color) == IF color = WHITE THEN BoardH - 1 ELSE 0

Abs(x) == IF x < 0 THEN -x ELSE x
Sign(x) == IF x < 0 THEN -1 ELSE IF x > 0 THEN 1 ELSE 0

\* The squares strictly between s and t, on one line, are empty.
ClearBetween(at, s, t) ==
    LET df == FileOf(t) - FileOf(s)
        dr == RankOf(t) - RankOf(s)
        n == IF Abs(df) > Abs(dr) THEN Abs(df) ELSE Abs(dr)
    IN  \A j \in 1 .. (n - 1) :
            at[Sq(FileOf(s) + j * Sign(df), RankOf(s) + j * Sign(dr))] = NONE

\* The piece on s attacks square t.
Attacks(at, s, t) ==
    LET ty == TypeOf(at[s])
        df == FileOf(t) - FileOf(s)
        dr == RankOf(t) - RankOf(s)
        line == (df = 0 \/ dr = 0) /\ s # t
        diag == Abs(df) = Abs(dr) /\ s # t
    IN  CASE ty = PAWN -> dr = PawnDir(ColorOf(at[s])) /\ Abs(df) = 1
          [] ty = KNIGHT -> {Abs(df), Abs(dr)} = {1, 2}
          [] ty = BISHOP -> diag /\ ClearBetween(at, s, t)
          [] ty = ROOK -> line /\ ClearBetween(at, s, t)
          [] ty = QUEEN -> (line \/ diag) /\ ClearBetween(at, s, t)
          [] ty = KING -> s # t /\ Abs(df) <= 1 /\ Abs(dr) <= 1
          [] OTHER -> FALSE

\* The squares the piece on s attacks.
AttacksFrom(at, s) == {t \in Squares : Attacks(at, s, t)}

\* The square k steps from s in direction d, or NO_SQ off the board.
Step(s, d, k) ==
    LET f == FileOf(s) + k * d[1]
        r == RankOf(s) + k * d[2]
    IN  IF OnBoard(f, r) THEN Sq(f, r) ELSE NO_SQ

PawnAttacks(s, color) ==
    {t \in Squares : RankOf(t) - RankOf(s) = PawnDir(color) /\ Abs(FileOf(t) - FileOf(s)) = 1}

\* Board::isAttacked(square, color)
IsAttacked(at, sq, color) ==
    \E s \in Squares : at[s] # NONE /\ ColorOf(at[s]) = color /\ Attacks(at, s, sq)

KingSq(at, color) == CHOOSE s \in Squares : at[s] = MkPiece(KING, color)

\* Board::inCheck() for the given side
InCheck(at, color) == IsAttacked(at, KingSq(at, color), Opp(color))

\* ---------------------------------------------------- chess.hpp: the moves

NORMAL == "NORMAL"
PROMOTION == "PROMOTION"
ENPASSANT == "ENPASSANT"
CASTLING == "CASTLING"

Mv(from, to, type, promo) == [from |-> from, to |-> to, type |-> type, promo |-> promo]

\* chess::Move::NO_MOVE: the move with all bits 0, never a generated move.
NO_MOVE == Mv(0, 0, NORMAL, NOTYPE)

PromoTypes == {KNIGHT, BISHOP, ROOK, QUEEN}

\* The piece placement after the move (Board::makeMove, the placement part).
AtAfter(at, m) ==
    LET piece == at[m.from]
        c == ColorOf(piece)
    IN  CASE m.type = CASTLING ->
               [s \in Squares |->
                   IF s = KingCastled(c) THEN MkPiece(KING, c)
                   ELSE IF s = RookCastled(c) THEN MkPiece(ROOK, c)
                   ELSE IF s \in {m.from, m.to} THEN NONE
                   ELSE at[s]]
          [] m.type = ENPASSANT ->
               [at EXCEPT ![m.from] = NONE, ![m.to] = piece,
                          ![Sq(FileOf(m.to), RankOf(m.from))] = NONE]
          [] m.type = PROMOTION ->
               [at EXCEPT ![m.from] = NONE, ![m.to] = MkPiece(m.promo, c)]
          [] OTHER ->
               [at EXCEPT ![m.from] = NONE, ![m.to] = piece]

PawnMoves(b, s) ==
    LET c == b.stm
        one == Step(s, <<0, PawnDir(c)>>, 1)
        two == Step(s, <<0, PawnDir(c)>>, 2)
        Adv(t) == IF RankOf(t) = PromoRank(c)
                  THEN {Mv(s, t, PROMOTION, p) : p \in PromoTypes}
                  ELSE {Mv(s, t, NORMAL, NOTYPE)}
        pushes == IF one # NO_SQ /\ b.at[one] = NONE
                  THEN Adv(one) \cup
                       (IF RankOf(s) = PawnStart(c) /\ two # NO_SQ /\ b.at[two] = NONE
                           /\ RankOf(two) # PromoRank(c)
                        THEN {Mv(s, two, NORMAL, NOTYPE)} ELSE {})
                  ELSE {}
        takes == UNION {Adv(t) : t \in {u \in PawnAttacks(s, c) :
                                          ColorOf(b.at[u]) = Opp(c)}}
        ep == {Mv(s, t, ENPASSANT, NOTYPE) : t \in {u \in PawnAttacks(s, c) : u = b.ep}}
    IN  pushes \cup takes \cup ep

PieceMoves(b, s) ==
    {Mv(s, t, NORMAL, NOTYPE) : t \in {u \in AttacksFrom(b.at, s) :
                                         ColorOf(b.at[u]) # b.stm}}

CastleMoves(b) ==
    LET c == b.stm
        between == {RookCastled(c), KingCastled(c)}
    IN  IF /\ c \in b.cr
           /\ b.at[KingHome(c)] = MkPiece(KING, c)
           /\ b.at[RookHome(c)] = MkPiece(ROOK, c)
           /\ \A s \in between : b.at[s] = NONE
           /\ \A s \in between \cup {KingHome(c)} : ~IsAttacked(b.at, s, Opp(c))
        THEN {Mv(KingHome(c), RookHome(c), CASTLING, NOTYPE)}
        ELSE {}

PseudoLegal(b) ==
    CastleMoves(b) \cup
    UNION {IF TypeOf(b.at[s]) = PAWN THEN PawnMoves(b, s) ELSE PieceMoves(b, s) :
           s \in {u \in Squares : ColorOf(b.at[u]) = b.stm}}

LegalSet(b) == {m \in PseudoLegal(b) : ~InCheck(AtAfter(b.at, m), b.stm)}

\* The generator's order: by from-square, then to-square, then promotion type.
MoveKey(m) == (m.from * (NSQ + 1) + m.to) * 8 + m.promo

RECURSIVE SeqOfMoves(_)
SeqOfMoves(S) ==
    IF S = {} THEN <<>>
    ELSE LET m == CHOOSE x \in S : \A y \in S : MoveKey(x) <= MoveKey(y)
         IN  <<m>> \o SeqOfMoves(S \ {m})

\* chess::movegen::legalmoves(movelist, board)
legalmoves(b) == SeqOfMoves(LegalSet(b))

\* A position: the placement, the side to move, the en-passant square, the
\* colours that may still castle, and the library's stack of undo records.
NewBoard(at, stm, ep, cr) == [at |-> at, stm |-> stm, ep |-> ep, cr |-> cr, prev |-> <<>>]

\* Board::makeMove(move)
makeMove(b, m) ==
    LET piece == b.at[m.from]
        c == b.stm
        captured == b.at[m.to]
        double == /\ TypeOf(piece) = PAWN
                  /\ m.type = NORMAL
                  /\ RankOf(m.to) - RankOf(m.from) = 2 * PawnDir(c)
        passed == Sq(FileOf(m.from), RankOf(m.from) + PawnDir(c))
        lost == (IF TypeOf(piece) = KING \/ m.from = RookHome(c) THEN {c} ELSE {})
                \cup (IF m.to = RookHome(Opp(c)) THEN {Opp(c)} ELSE {})
    IN  [at |-> AtAfter(b.at, m),
         stm |-> Opp(c),
         ep |-> IF double /\ \E s \in PawnAttacks(passed, c) : b.at[s] = MkPiece(PAWN, Opp(c))
                THEN passed ELSE NO_SQ,
         cr |-> b.cr \ lost,
         prev |-> Append(b.prev, [cr |-> b.cr, ep |-> b.ep, captured |-> captured])]

\* Board::unmakeMove(move)
unmakeMove(b, m) ==
    LET st == b.prev[Len(b.prev)]
        c == Opp(b.stm)
        at == CASE m.type = CASTLING ->
                     [s \in Squares |->
                         IF s = m.from THEN MkPiece(KING, c)
                         ELSE IF s = m.to THEN MkPiece(ROOK, c)
                         ELSE IF s \in {KingCastled(c), RookCastled(c)} THEN NONE
                         ELSE b.at[s]]
                [] m.type = ENPASSANT ->
                     [b.at EXCEPT ![m.from] = MkPiece(PAWN, c), ![m.to] = NONE,
                                  ![Sq(FileOf(m.to), RankOf(m.from))] = MkPiece(PAWN, Opp(c))]
                [] m.type = PROMOTION ->
                     [b.at EXCEPT ![m.from] = MkPiece(PAWN, c), ![m.to] = st.captured]
                [] OTHER ->
                     [b.at EXCEPT ![m.from] = b.at[m.to], ![m.to] = st.captured]
    IN  [at |-> at, stm |-> c, ep |-> st.ep, cr |-> st.cr,
         prev |-> SubSeq(b.prev, 1, Len(b.prev) - 1)]

\* chess::GameResult
LOSE == "LOSE"
DRAW == "DRAW"
RESULT_NONE == "NONE"

\* Board::isInsufficientMaterial(), without the same-coloured-bishops case
isInsufficientMaterial(at) ==
    LET others == {s \in Squares : at[s] # NONE /\ TypeOf(at[s]) # KING}
    IN  \/ others = {}
        \/ /\ Cardinality(others) = 1
           /\ \A s \in others : TypeOf(at[s]) \in {KNIGHT, BISHOP}

\* Board::isGameOver(movelist).second
isGameOver(b, movelist) ==
    IF isInsufficientMaterial(b.at) THEN DRAW
    ELSE IF movelist = <<>>
         THEN (IF InCheck(b.at, b.stm) THEN LOSE ELSE DRAW)
         ELSE RESULT_NONE

\* ------------------------------------------------- bot.hpp: the evaluator

pieceValue(piece) ==
    CASE piece = "P" -> 100
      [] piece = "p" -> -100
      [] piece = "N" -> 320
      [] piece = "n" -> -320
      [] piece = "B" -> 330
      [] piece = "b" -> -330
      [] piece = "R" -> 500
      [] piece = "r" -> -500
      [] piece = "Q" -> 900
      [] piece = "q" -> -900
      [] OTHER -> 0

\* MVV_LVA_LUT[attacker][victim], indexed by piece type
MVV_LVA_LUT ==
    << <<15, 25, 35, 45, 55, 0, 0>>,
       <<14, 24, 34, 44, 54, 0, 0>>,
       <<13, 23, 33, 43, 53, 0, 0>>,
       <<12, 22, 32, 42, 52, 0, 0>>,
       <<11, 21, 31, 41, 51, 0, 0>>,
       <<10, 20, 30, 40, 50, 0, 0>>,
       <<0, 0, 0, 0, 0, 0, 0>> >>

RECURSIVE ScoreFrom(_, _)
ScoreFrom(at, square) ==
    IF square >= NO_SQ THEN 0
    ELSE pieceValue(at[square]) + ScoreFrom(at, square + 1)

evaluateBoard(b) == ScoreFrom(b.at, 0)

moveHeuristic(m, b) == MVV_LVA_LUT[TypeOf(b.at[m.from])][TypeOf(b.at[m.to])]

\* Bot::applyIncrementalEval: the value it leaves in current_eval.
applyIncrementalEval(b, m, current_eval) ==
    LET victim == b.at[m.to]
        e1 == IF victim # NONE THEN current_eval - pieceValue(victim) ELSE current_eval
    IN  IF m.type = ENPASSANT
        THEN (IF b.stm = WHITE THEN e1 - pieceValue("p") ELSE e1 - pieceValue("P"))
        ELSE IF m.type = PROMOTION
        THEN LET attacker == b.at[m.from]
                 promoted_piece ==
                     IF m.promo \in PromoTypes THEN MkPiece(m.promo, b.stm) ELSE NONE
             IN  e1 - pieceValue(attacker) + pieceValue(promoted_piece)
        ELSE e1

\* --------------------------------------------------------- root positions

\* The placement holding the pieces of S, a set of <<file, rank, piece>>.
Place(S) ==
    [s \in Squares |->
        IF \E e \in S : Sq(e[1], e[2]) = s
        THEN (CHOOSE e \in S : Sq(e[1], e[2]) = s)[3]
        ELSE NONE]

\* The last rank.  Black's pieces are placed from it, so that a root position
\* is the same position near both edges on a board of any height.
LastRank == BoardH - 1

\* White mates with b2-b4, stalemates with d2-d3, and mates a move later
\* after b2-b3.
RootMateNet ==
    NewBoard(Place({<<0, LastRank - 2, "K">>, <<0, LastRank - 1, "P">>, <<1, LastRank - 3, "P">>,
                    <<3, LastRank - 3, "P">>, <<0, LastRank, "k">>, <<3, LastRank - 1, "p">>}),
             WHITE, NO_SQ, {})

\* White may castle; the pawns are blocked and none can capture.
RootCastle ==
    NewBoard(Place({<<0, 0, "K">>, <<3, 0, "R">>,
                    <<0, 1, "P">>, <<1, 2, "P">>, <<2, 1, "P">>, <<3, 2, "P">>,
                    <<0, 2, "p">>, <<1, 3, "p">>, <<2, 2, "p">>, <<3, 3, "p">>,
                    <<0, LastRank, "k">>}),
             WHITE, NO_SQ, {WHITE})

\* Castling mates, and so does the knight taking on d4.
RootTwoMates ==
    NewBoard(Place({<<0, 0, "K">>, <<3, 0, "R">>, <<2, 1, "N">>, <<0, 2, "P">>,
                    <<1, LastRank, "k">>, <<0, LastRank, "r">>, <<2, LastRank, "r">>,
                    <<0, 3, "p">>, <<2, 3, "p">>, <<3, 3, "p">>}),
             WHITE, NO_SQ, {WHITE})

\* White is stalemated: no legal move at the root.
RootNoMoves ==
    NewBoard(Place({<<0, 0, "K">>, <<1, 2, "q">>, <<3, LastRank, "k">>}),
             WHITE, NO_SQ, {})

\* White has two king moves.
RootFewMoves ==
    NewBoard(Place({<<0, 0, "K">>, <<2, 2, "k">>, <<3, 3, "p">>}),
             WHITE, NO_SQ, {})

\* The root positions of the step-by-step search and of findBestWhiteMove.
SearchRoots == {RootMateNet, RootCastle}
Roots == {RootMateNet, RootCastle, RootTwoMates, RootNoMoves, RootFewMoves}

VARIABLES
    original_board, moves, root_eval,  \* findBestWhiteMove: the root position
    NTHREADS,                          \* the build's maximum parallelism
    pc, i, num_threads, moves_per_thread, threads, move_evals,
    candidate_moves, result,           \* findBestWhiteMove: the main thread
    writes,                            \* history: writes[k] counts the stores to slot k
    board, stack, ret, last            \* one worker, step by step

rvars == <<original_board, moves, root_eval>>
dvars == <<NTHREADS, pc, i, num_threads, moves_per_thread, threads, move_evals,
           candidate_moves, result, writes>>
wvars == <<board, stack, ret, last>>
vars == <<rvars, dvars, wvars>>

Max(a, b) == IF a > b THEN a ELSE b
Min(a, b) == IF a < b THEN a ELSE b

\* ------------------------------------------- bot.hpp: minimax, step by step

\* A call frame.  fn is "evaluate_moves" (the worker's lambda) or "minimax".
\* rest holds the moves of movelist the loop has not reached yet and score
\* their moveHeuristic at the time of orderMoves.  entry_board (the board when
\* the call began) and pruned (a cut-off happened below) are history only.
Frame(fn, depth, alpha, beta, maximizing_player, current_eval, b) ==
    [fn |-> fn, depth |-> depth, alpha |-> alpha, beta |-> beta,
     maximizing_player |-> maximizing_player, current_eval |-> current_eval,
     old_eval |-> current_eval, rest |-> {}, score |-> <<>>, move |-> NO_MOVE,
     best_score |-> 0, pc |-> "enter", entry_board |-> b, pruned |-> FALSE]

NoCall == [valid |-> FALSE]

\* What the call that has just returned was and gave.
Returned(f, game_over, value, pruned, exit_board) ==
    [valid |-> TRUE, depth |-> f.depth, maximizing_player |-> f.maximizing_player,
     current_eval |-> f.current_eval, entry_board |-> f.entry_board,
     exit_board |-> exit_board, game_over |-> game_over, value |-> value,
     pruned |-> pruned, level |-> 0]

Top == stack[Len(stack)]
Pop == SubSeq(stack, 1, Len(stack) - 1)
SetTop(f) == [stack EXCEPT ![Len(stack)] = f]

\* The value minimax returns before its move loop, if it does (lines 248-258):
\* <<TRUE, value>>, or <<FALSE, 0>> when the loop is entered.
EarlyReturn_leaf_first(game_over, depth, maximizing_player, current_eval) ==
    IF depth = 0 THEN <<TRUE, current_eval>>
    ELSE IF game_over # RESULT_NONE
    THEN (IF game_over = LOSE
          THEN <<TRUE, IF maximizing_player THEN -MATE_SCORE - depth ELSE MATE_SCORE + depth>>
          ELSE <<TRUE, 0>>)
    ELSE <<FALSE, 0>>

EarlyReturn(game_over, depth, maximizing_player, current_eval) ==
    IF game_over # RESULT_NONE
    THEN (IF game_over = LOSE
          THEN <<TRUE, IF maximizing_player THEN -MATE_SCORE - depth ELSE MATE_SCORE + depth>>
          ELSE <<TRUE, 0>>)
    ELSE IF depth = 0 THEN <<TRUE, current_eval>>
    ELSE <<FALSE, 0>>

\* if (beta <= alpha) break;  (lines 276-278 and 294-296)
Cutoff_reversed(alpha, beta) == alpha <= beta

Cutoff(alpha, beta) == beta <= alpha

\* orderMoves: std::sort is not stable, so the moves come in any order of
\* descending score; the model draws that order one move at a time.
NextMoves(f) == {m \in f.rest : \A y \in f.rest : f.score[m] >= f.score[y]}

\* The board after a child call returned (lines 272 and 290).
BoardAfterChild_no_unmake(b, m) == b

BoardAfterChild(b, m) == unmakeMove(b, m)

\* for (i = start_index; ...): applyIncrementalEval, makeMove, call minimax
WorkerCall ==
    /\ stack # <<>> /\ Top.fn = "evaluate_moves" /\ Top.pc = "loop"
    /\ LET m == Top.move
           current_eval == applyIncrementalEval(board, m, root_eval)
           nb == makeMove(board, m)
       IN  /\ board' = nb
           /\ stack' = Append(SetTop([Top EXCEPT !.current_eval = current_eval,
                                                 !.pc = "after"]),
                              Frame("minimax", SEARCH_DEPTH - 1, INT_MIN, INT_MAX,
                                    FALSE, current_eval, nb))
    /\ ret' = 0 /\ last' = NoCall
    /\ UNCHANGED <<rvars, dvars>>

\* move_evals[i] = <the returned value>; board.unmakeMove(moves[i])
WorkerStore ==
    /\ stack # <<>> /\ Top.fn = "evaluate_moves" /\ Top.pc = "after"
    /\ board' = unmakeMove(board, Top.move)
    /\ stack' = SetTop([Top EXCEPT !.best_score = ret, !.pc = "done"])
    /\ ret' = 0 /\ last' = NoCall
    /\ UNCHANGED <<rvars, dvars>>

\* minimax, lines 245-264 and 282: legalmoves, isGameOver, depth, orderMoves
MinimaxEnter ==
    /\ stack # <<>> /\ Top.fn = "minimax" /\ Top.pc = "enter"
    /\ LET f == Top
           movelist == legalmoves(board)
           game_over == isGameOver(board, movelist)
           early == EarlyReturn(game_over, f.depth, f.maximizing_player, f.current_eval)
           ms == {movelist[k] : k \in 1 .. Len(movelist)}
       IN  IF early[1]
           THEN /\ stack' = Pop
                /\ ret' = early[2]
                /\ last' = [Returned(f, game_over, early[2], FALSE, board)
                              EXCEPT !.level = Len(stack) - 1]
           ELSE /\ stack' = SetTop([f EXCEPT !.rest = ms,
                                             !.score = [m \in ms |-> moveHeuristic(m, board)],
                                             !.best_score = IF f.maximizing_player
                                                            THEN INT_MIN ELSE INT_MAX,
                                             !.pc = "loop"])
                /\ ret' = 0
                /\ last' = NoCall
    /\ UNCHANGED <<rvars, dvars, board>>

\* The loop body up to the recursive call (lines 266-270 and 284-288).
Descend(maximizing_player) ==
    /\ stack # <<>> /\ Top.fn = "minimax" /\ Top.pc = "loop"
    /\ Top.maximizing_player = maximizing_player
    /\ \E m \in NextMoves(Top) :
         LET f == Top
             current_eval == applyIncrementalEval(board, m, f.current_eval)
             nb == makeMove(board, m)
         IN  /\ board' = nb
             /\ stack' = Append(SetTop([f EXCEPT !.old_eval = f.current_eval,
                                                 !.current_eval = current_eval,
                                                 !.move = m,
                                                 !.rest = f.rest \ {m},
                                                 !.pc = "after"]),
                                Frame("minimax", f.depth - 1, f.alpha, f.beta,
                                      ~maximizing_player, current_eval, nb))
    /\ ret' = 0 /\ last' = NoCall
    /\ UNCHANGED <<rvars, dvars>>

MaxDescend == Descend(TRUE)
MinDescend == Descend(FALSE)

\* The loop body after the recursive call (lines 272-279), and the return of
\* best_score when the loop ends or is left by the cut-off.
MaxAfter ==
    /\ stack # <<>> /\ Top.fn = "minimax" /\ Top.pc = "after" /\ Top.maximizing_player
    /\ LET f == Top
           eval == ret
           nb == BoardAfterChild(board, f.move)
           best_score == Max(f.best_score, eval)
           alpha == Max(f.alpha, eval)
           cut == Cutoff(alpha, f.beta)
           pruned == f.pruned \/ last.pruned \/ (cut /\ f.rest # {})
       IN  /\ board' = nb
           /\ IF cut \/ f.rest = {}
              THEN /\ stack' = Pop
                   /\ ret' = best_score
                   /\ last' = [Returned(f, RESULT_NONE, best_score, pruned, nb)
                                 EXCEPT !.level = Len(stack) - 1]
              ELSE /\ stack' = SetTop([f EXCEPT !.current_eval = f.old_eval,
                                                !.move = NO_MOVE,
                                                !.best_score = best_score,
                                                !.alpha = alpha,
                                                !.pruned = pruned,
                                                !.pc = "loop"])
                   /\ ret' = 0
                   /\ last' = NoCall
    /\ UNCHANGED <<rvars, dvars>>

\* The same for the minimizing player (lines 290-297).
MinAfter ==
    /\ stack # <<>> /\ Top.fn = "minimax" /\ Top.pc = "after" /\ ~Top.maximizing_player
    /\ LET f == Top
           eval == ret
           nb == BoardAfterChild(board, f.move)
           best_score == Min(f.best_score, eval)
           beta == Min(f.beta, eval)
           cut == Cutoff(f.alpha, beta)
           pruned == f.pruned \/ last.pruned \/ (cut /\ f.rest # {})
       IN  /\ board' = nb
           /\ IF cut \/ f.rest = {}
              THEN /\ stack' = Pop
                   /\ ret' = best_score
                   /\ last' = [Returned(f, RESULT_NONE, best_score, pruned, nb)
                                 EXCEPT !.level = Len(stack) - 1]
              ELSE /\ stack' = SetTop([f EXCEPT !.current_eval = f.old_eval,
                                                !.move = NO_MOVE,
                                                !.best_score = best_score,
                                                !.beta = beta,
                                                !.pruned = pruned,
                                                !.pc = "loop"])
                   /\ ret' = 0
                   /\ last' = NoCall
    /\ UNCHANGED <<rvars, dvars>>

\* One worker evaluating one root move of one root position.
SearchInit ==
    /\ original_board \in SearchRoots
    /\ moves = legalmoves(original_board)
    /\ root_eval = evaluateBoard(original_board)
    /\ board = original_board
    /\ \E idx \in 1 .. Len(moves) :
         stack = <<[Frame("evaluate_moves", SEARCH_DEPTH, INT_MIN, INT_MAX, TRUE,
                          root_eval, original_board)
                      EXCEPT !.move = moves[idx], !.pc = "loop"]>>
    /\ ret = 0
    /\ last = NoCall
    /\ NTHREADS = 1 /\ pc = "worker" /\ i = 0 /\ num_threads = 0
    /\ moves_per_thread = 0 /\ threads = <<>> /\ move_evals = <<>>
    /\ candidate_moves = {} /\ result = [move |-> NO_MOVE, eval |-> 0]
    /\ writes = <<>>

SearchNext ==
    \/ WorkerCall
    \/ WorkerStore
    \/ MinimaxEnter
    \/ MaxDescend
    \/ MinDescend
    \/ MaxAfter
    \/ MinAfter

SearchSpec == SearchInit /\ [][SearchNext]_vars

\* ------------------------------------------ bot.hpp: minimax, as a function

\* orderMoves, with the moves of equal score kept in the generator's order
\* (one of the orders std::sort may produce).
RECURSIVE InsertByScore(_, _, _)
InsertByScore(m, sorted, b) ==
    IF sorted = <<>> THEN <<m>>
    ELSE IF moveHeuristic(m, b) > moveHeuristic(Head(sorted), b)
         THEN <<m>> \o sorted
         ELSE <<Head(sorted)>> \o InsertByScore(m, Tail(sorted), b)

RECURSIVE orderMoves(_, _)
orderMoves(movelist, b) ==
    IF movelist = <<>> THEN <<>>
    ELSE InsertByScore(Head(movelist), orderMoves(Tail(movelist), b), b)

RECURSIVE minimax(_, _, _, _, _, _)
RECURSIVE MaxLoop(_, _, _, _, _, _, _, _)
RECURSIVE MinLoop(_, _, _, _, _, _, _, _)

\* Bot::minimax, the value it returns
minimax(b, depth, alpha, beta, maximizing_player, current_eval) ==
    LET movelist == legalmoves(b)
        game_over == isGameOver(b, movelist)
        early == EarlyReturn(game_over, depth, maximizing_player, current_eval)
    IN  IF early[1] THEN early[2]
        ELSE IF maximizing_player
        THEN MaxLoop(b, depth, alpha, beta, current_eval, orderMoves(movelist, b), 1, INT_MIN)
        ELSE MinLoop(b, depth, alpha, beta, current_eval, orderMoves(movelist, b), 1, INT_MAX)

\* The maximizing player's loop from the k-th move on (lines 265-280).
MaxLoop(b, depth, alpha, beta, current_eval, movelist, k, best_score) ==
    IF k > Len(movelist) THEN best_score
    ELSE LET move == movelist[k]
             eval == minimax(makeMove(b, move), depth - 1, alpha, beta, FALSE,
                             applyIncrementalEval(b, move, current_eval))
         IN  IF Cutoff(Max(alpha, eval), beta) THEN Max(best_score, eval)
             ELSE MaxLoop(b, depth, Max(alpha, eval), beta, current_eval, movelist,
                          k + 1, Max(best_score, eval))

\* The minimizing player's loop from the k-th move on (lines 283-298).
MinLoop(b, depth, alpha, beta, current_eval, movelist, k, best_score) ==
    IF k > Len(movelist) THEN best_score
    ELSE LET move == movelist[k]
             eval == minimax(makeMove(b, move), depth - 1, alpha, beta, TRUE,
                             applyIncrementalEval(b, move, current_eval))
         IN  IF Cutoff(alpha, Min(beta, eval)) THEN Min(best_score, eval)
             ELSE MinLoop(b, depth, alpha, Min(beta, eval), current_eval, movelist,
                          k + 1, Min(best_score, eval))

\* The greatest and the least element of a non-empty set of integers.
SetMax(S) == CHOOSE x \in S : \A y \in S : y <= x
SetMin(S) == CHOOSE x \in S : \A y \in S : x <= y

\* Minimax without the window: every legal move of every node is searched,
\* with the terminal and leaf values of lines 248-258.
RECURSIVE FullMinimax(_, _, _, _)
FullMinimax(b, depth, maximizing_player, current_eval) ==
    LET movelist == legalmoves(b)
        game_over == isGameOver(b, movelist)
        early == EarlyReturn(game_over, depth, maximizing_player, current_eval)
        evals == {FullMinimax(makeMove(b, movelist[k]), depth - 1, ~maximizing_player,
                              applyIncrementalEval(b, movelist[k], current_eval)) :
                      k \in 1 .. Len(movelist)}
    IN  IF early[1] THEN early[2]
        ELSE IF maximizing_player THEN SetMax(evals) ELSE SetMin(evals)

\* ------------------------------------- bot.hpp: findBestWhiteMove, threads

\* Lines 113-118: the value a worker stores for move, searched from board b.
WorkerSearch(b, move, eval0) ==
    minimax(makeMove(b, move), SEARCH_DEPTH - 1, INT_MIN, INT_MAX, FALSE,
            applyIncrementalEval(b, move, eval0))

\* WorkerSearch on the root positions, computed once: the triples
\* <<root, index, value>>.
SearchTable ==
    UNION {{<<r, k, WorkerSearch(r, legalmoves(r)[k], evaluateBoard(r))>> :
               k \in 1 .. Len(legalmoves(r))} : r \in Roots}

TableKeys == {<<r, legalmoves(r), evaluateBoard(r)>> : r \in Roots}

TableValue(r, k) == (CHOOSE e \in SearchTable : e[1] = r /\ e[2] = k)[3]

\* WorkerSearch(b, movelist[k], eval0), read from SearchTable when the worker's
\* board and the evaluation it starts from are those of a root position.
WorkerValue(b, movelist, k, eval0) ==
    IF <<b, movelist, eval0>> \in TableKeys
    THEN TableValue(b, k)
    ELSE WorkerSearch(b, movelist[k], eval0)

\* Lines 123-128: the number of workers and the index range of worker t.
NumThreads(n) == Min(NTHREADS, n)

\* The division by num_threads is reached only with num_threads >= 1.
MovesPerThread_floor(n, k) == IF k = 0 THEN 0 ELSE n \div k

MovesPerThread(n, k) == IF k = 0 THEN 0 ELSE (n + k - 1) \div k

StartIndex_overlap(t, per_thread) == IF t = 0 THEN 0 ELSE t * per_thread - 1

StartIndex(t, per_thread) == t * per_thread

EndIndex(t, per_thread, n) == Min(StartIndex(t, per_thread) + per_thread, n)

\* moves.empty() (line 98)
NoMoves_never(movelist) == FALSE

NoMoves(movelist) == movelist = <<>>

\* Lines 98-105 and 123-124.
CheckMoves ==
    /\ pc = "check"
    /\ IF NoMoves(moves)
       THEN /\ result' = [move |-> NO_MOVE, eval |-> 0]
            /\ pc' = "done"
            /\ UNCHANGED <<root_eval, move_evals, writes, num_threads, moves_per_thread>>
       ELSE /\ root_eval' = evaluateBoard(original_board)
            /\ move_evals' = [k \in 1 .. Len(moves) |-> 0]
            /\ writes' = [k \in 1 .. Len(moves) |-> 0]
            /\ num_threads' = NumThreads(Len(moves))
            /\ moves_per_thread' = MovesPerThread(Len(moves), NumThreads(Len(moves)))
            /\ pc' = "spawn"
            /\ UNCHANGED result
    /\ UNCHANGED <<original_board, moves, NTHREADS, i, threads, candidate_moves, wvars>>

\* Lines 125-132: threads.emplace_back(evaluate_moves, ...); the thread runs
\* from then on, on its own copy of original_board.
Spawn ==
    /\ pc = "spawn"
    /\ IF i < num_threads
       THEN /\ threads' = Append(threads,
                   [start_index |-> StartIndex(i, moves_per_thread),
                    end_index |-> EndIndex(i, moves_per_thread, Len(moves)),
                    i |-> StartIndex(i, moves_per_thread),
                    board |-> original_board,
                    pc |-> "loop", joined |-> FALSE])
            /\ i' = i + 1
            /\ pc' = pc
       ELSE /\ pc' = "join"
            /\ i' = 0
            /\ UNCHANGED threads
    /\ UNCHANGED <<rvars, NTHREADS, num_threads, moves_per_thread, move_evals,
                   candidate_moves, result, writes, wvars>>

\* evaluate_moves, lines 111-118: the loop test, applyIncrementalEval,
\* makeMove, minimax and the store to move_evals[i].  Indices are 0-based in
\* the code and 1-based in moves and move_evals here.
WorkerEvaluate(t) ==
    /\ threads[t].pc = "loop"
    /\ LET w == threads[t]
       IN  IF w.i < w.end_index
           THEN LET move == moves[w.i + 1]
                    nb == makeMove(w.board, move)
                    eval == WorkerValue(w.board, moves, w.i + 1, root_eval)
                IN  /\ move_evals' = [move_evals EXCEPT ![w.i + 1] = eval]
                    /\ writes' = [writes EXCEPT ![w.i + 1] = @ + 1]
                    /\ threads' = [threads EXCEPT ![t].board = nb, ![t].pc = "unmake"]
           ELSE /\ threads' = [threads EXCEPT ![t].pc = "finished"]
                /\ UNCHANGED <<move_evals, writes>>
    /\ UNCHANGED <<rvars, NTHREADS, pc, i, num_threads, moves_per_thread,
                   candidate_moves, result, wvars>>

\* The worker's board after the search of a root move (line 119).
WorkerBoardAfter_no_unmake(b, m) == b

WorkerBoardAfter(b, m) == unmakeMove(b, m)

\* evaluate_moves, line 119 and ++i
WorkerUnmake(t) ==
    /\ threads[t].pc = "unmake"
    /\ threads' = [threads EXCEPT ![t].board = WorkerBoardAfter(threads[t].board,
                                                                 moves[threads[t].i + 1]),
                                  ![t].i = @ + 1,
                                  ![t].pc = "loop"]
    /\ UNCHANGED <<rvars, NTHREADS, pc, i, num_threads, moves_per_thread, move_evals,
                   candidate_moves, result, writes, wvars>>

\* thread.join() returns once the thread has finished.
JoinReady_no_wait(t) == TRUE

JoinReady(t) == threads[t].pc = "finished"

\* Lines 134-138: the threads are joined in the order they were created.
Join ==
    /\ pc = "join"
    /\ IF i < Len(threads)
       THEN /\ JoinReady(i + 1)
            /\ threads' = [threads EXCEPT ![i + 1].joined = TRUE]
            /\ i' = i + 1
            /\ pc' = pc
       ELSE /\ pc' = "select"
            /\ UNCHANGED <<i, threads>>
    /\ UNCHANGED <<rvars, NTHREADS, num_threads, moves_per_thread, move_evals,
                   candidate_moves, result, writes, wvars>>

\* std::sort by a.eval < b.eval (lines 151-152): the element at place j is the
\* one with j - 1 elements before it, equal evaluations in the list's order.
SortByEval(list) ==
    LET Before(x, y) == \/ list[x].eval < list[y].eval
                        \/ list[x].eval = list[y].eval /\ x < y
        Rank(y) == Cardinality({x \in 1 .. Len(list) : Before(x, y)}) + 1
    IN  [j \in 1 .. Len(list) |-> list[CHOOSE y \in 1 .. Len(list) : Rank(y) = j]]

\* Lines 145-152
MoveEvalList(movelist, evals) ==
    SortByEval([k \in 1 .. Len(movelist) |-> [move |-> movelist[k], eval |-> evals[k]]])

\* Lines 155-163
MaxEvalMoves(list) ==
    LET max_eval == list[Len(list)].eval
    IN  {list[k].move : k \in {j \in 1 .. Len(list) : list[j].eval = max_eval}}

\* Lines 166-172: a move is taken for a capture when its destination square
\* is occupied in the root position.
AggressiveMoves(max_eval_moves, b) == {m \in max_eval_moves : b.at[m.to] # NONE}

\* Lines 174-179
CandidateMoves(movelist, evals, b) ==
    LET max_eval_moves == MaxEvalMoves(MoveEvalList(movelist, evals))
        aggressive_moves == AggressiveMoves(max_eval_moves, b)
    IN  IF aggressive_moves # {} THEN aggressive_moves ELSE max_eval_moves

\* Lines 145-187.  With no move in the list, back() and the draw from an
\* empty range are undefined: any move and any value may come out.
Select ==
    /\ pc = "select"
    /\ IF moves = <<>>
       THEN /\ candidate_moves' = {}
            /\ \E m \in {NO_MOVE, Mv(0, 1, NORMAL, NOTYPE)}, e \in {0, 1} :
                 result' = [move |-> m, eval |-> e]
       ELSE LET list == MoveEvalList(moves, move_evals)
            IN  /\ candidate_moves' = CandidateMoves(moves, move_evals, original_board)
                /\ \E m \in CandidateMoves(moves, move_evals, original_board) :
                     result' = [move |-> m, eval |-> list[Len(list)].eval]
    /\ pc' = "done"
    /\ UNCHANGED <<rvars, NTHREADS, i, num_threads, moves_per_thread, threads,
                   move_evals, writes, wvars>>

Worker(t) == WorkerEvaluate(t) \/ WorkerUnmake(t)

Init ==
    /\ original_board \in Roots
    /\ moves = legalmoves(original_board)
    /\ root_eval = 0
    /\ NTHREADS \in 1 .. MaxNThreads
    /\ pc = "check" /\ i = 0 /\ num_threads = 0 /\ moves_per_thread = 0
    /\ threads = <<>> /\ move_evals = <<>> /\ writes = <<>>
    /\ candidate_moves = {} /\ result = [move |-> NO_MOVE, eval |-> 0]
    /\ board = original_board /\ stack = <<>> /\ ret = 0 /\ last = NoCall

Next ==
    \/ CheckMoves
    \/ Spawn
    \/ \E t \in 1 .. Len(threads) : WorkerEvaluate(t)
    \/ \E t \in 1 .. Len(threads) : WorkerUnmake(t)
    \/ Join
    \/ Select

Spec == Init /\ [][Next]_vars

\* The scheduler runs every thread that can take a step.
FairSpec ==
    /\ Spec
    /\ WF_vars(CheckMoves) /\ WF_vars(Spawn) /\ WF_vars(Join) /\ WF_vars(Select)
    /\ \A t \in 1 .. MaxNThreads : WF_vars(t <= Len(threads) /\ Worker(t))

\* ------------------------------------------------------------ the search

\* C1: for every move the search makes from a position, of whatever type, the
\* full evaluation of the position after the move equals the full evaluation
\* of the position before it plus the amount applyIncrementalEval adds to
\* current_eval.
C1_IncrementalEqualsFull ==
    \A k \in 1 .. Len(stack) - 1 :
        LET f == stack[k]
            d == applyIncrementalEval(f.entry_board, f.move, f.old_eval) - f.old_eval
        IN  evaluateBoard(stack[k + 1].entry_board) = evaluateBoard(f.entry_board) + d

\* C2: the value minimax returns to a worker, which calls it with the window
\* (INT_MIN, INT_MAX), is the value of the minimax without pruning over the
\* same depth, whatever order orderMoves gave the moves at each node.
C2_PruningKeepsValue ==
    last.valid /\ last.level = 1
        => last.value = FullMinimax(last.entry_board, last.depth,
                                    last.maximizing_player, last.current_eval)

\* C2 witness: a call made by a worker has returned and moves were cut off in it.
C2_RootCallPruned == last.valid /\ last.level = 1 /\ last.pruned

\* C4: when a call of minimax returns, the board is the board the call began
\* with, and so it is whenever the move loop is about to take its next move:
\* each makeMove has been undone, also in the iteration of a cut-off.
C4_BoardRestored ==
    /\ last.valid => last.exit_board = last.entry_board /\ board = last.entry_board
    /\ stack # <<>> /\ Top.pc \in {"enter", "loop", "done"} => board = Top.entry_board

\* C4 witness: a call whose children are leaves left its loop by a cut-off,
\* with moves not yet tried, and has returned.
C4_ReturnedAfterCutoff ==
    last.valid /\ last.pruned /\ last.depth = 1 /\ last.game_over = RESULT_NONE

\* C6: a terminal node returns -(MATE_SCORE + depth) for a lost maximizing
\* node, MATE_SCORE + depth for a lost minimizing node and 0 for any other
\* terminal result, whatever depth and current_eval are; the magnitude of a
\* loss is at least MATE_SCORE and above every material evaluation.
C6_TerminalValue ==
    last.valid /\ last.game_over # RESULT_NONE =>
        IF last.game_over = LOSE
        THEN /\ last.value = IF last.maximizing_player
                             THEN -(MATE_SCORE + last.depth)
                             ELSE MATE_SCORE + last.depth
             /\ Abs(last.value) >= MATE_SCORE
             /\ Abs(last.value) > pieceValue("Q") * NSQ
             /\ Abs(last.value) > Abs(evaluateBoard(last.entry_board))
             /\ Abs(last.value) > Abs(last.current_eval)
        ELSE last.value = 0

\* C6 witness: a checkmate was classified at depth 0 with a current_eval that
\* is neither 0 nor the value returned.
C6_MateAtLeaf ==
    /\ last.valid /\ last.game_over = LOSE /\ last.depth = 0
    /\ last.current_eval # 0 /\ last.current_eval # last.value

\* ----------------------------------------------------- findBestWhiteMove

\* The indices of the range [start_index, end_index) of a worker.
RangeOf(w) == {k \in 0 .. Len(moves) - 1 : w.start_index <= k /\ k < w.end_index}

\* C3: once the workers are joined, move_evals holds for each root move the
\* value of the search from the root position, and the candidate set is the
\* one computed from those values, whatever the number of workers, their
\* ranges and the interleaving of their steps were.
C3_EvalsIndependent ==
    pc \in {"select", "done"} /\ moves # <<>> =>
        LET evals == [k \in 1 .. Len(moves) |-> TableValue(original_board, k)]
        IN  /\ move_evals = evals
            /\ pc = "done" => candidate_moves = CandidateMoves(moves, evals, original_board)

\* C3 witness: the call is done with more than two workers, each of which
\* had more than one root move.
C3_ManyWorkersDone ==
    /\ pc = "done" /\ Len(threads) > 2 /\ candidate_moves # {}
    /\ \A t \in 1 .. Len(threads) : Cardinality(RangeOf(threads[t])) > 1

\* C5: the move returned has the greatest evaluation of all root moves and
\* the evaluation returned is that greatest one; if a root move of greatest
\* evaluation captures (an enemy piece stands on its destination square in
\* the root position), the move returned is one that does.
C5_ReturnsMaxCapture ==
    pc = "done" /\ moves # <<>> =>
        LET best == SetMax({move_evals[k] : k \in 1 .. Len(moves)})
            captures == {moves[k] : k \in {j \in 1 .. Len(moves) :
                            /\ move_evals[j] = best
                            /\ original_board.at[moves[j].to] # NONE
                            /\ ColorOf(original_board.at[moves[j].to]) = Opp(original_board.stm)}}
        IN  /\ result.eval = best
            /\ \E k \in 1 .. Len(moves) : moves[k] = result.move /\ move_evals[k] = best
            /\ captures # {} => result.move \in captures

\* C7: with no legal move at the root, no thread is ever created, the
\* selector never runs and the move returned is NO_MOVE.
C7_NoMovesNoMove ==
    moves = <<>> =>
        /\ pc \in {"check", "done"}
        /\ threads = <<>> /\ candidate_moves = {}
        /\ result = [move |-> NO_MOVE, eval |-> 0]

\* C7 witness: the call has returned for a root position without legal moves.
C7_ReturnedWithoutMoves == moves = <<>> /\ pc = "done"

\* C8: the workers' index ranges lie in 0..n-1 and are pairwise disjoint; once
\* all workers are created every index is in exactly one range; a worker
\* stores only at indices of its range, no slot of move_evals is ever written
\* twice, and once the workers are joined every slot was written once.
C8_DisjointCover ==
    /\ \A k \in 1 .. Len(writes) : writes[k] <= 1
    /\ \A t \in 1 .. Len(threads) :
          /\ threads[t].start_index >= 0
          /\ threads[t].end_index <= Len(moves)
          /\ threads[t].pc = "unmake" => threads[t].i \in RangeOf(threads[t])
    /\ \A t, u \in 1 .. Len(threads) :
          t # u => RangeOf(threads[t]) \cap RangeOf(threads[u]) = {}
    /\ pc \in {"join", "select", "done"} /\ moves # <<>> =>
          \A k \in 0 .. Len(moves) - 1 :
              Cardinality({t \in 1 .. Len(threads) : k \in RangeOf(threads[t])}) = 1
    /\ pc \in {"select", "done"} /\ moves # <<>> =>
          \A k \in 1 .. Len(writes) : writes[k] = 1

\* C8 witness: several workers were joined and every slot was written once.
C8_AllSlotsWritten ==
    /\ pc = "select" /\ Len(threads) > 1
    /\ \A k \in 1 .. Len(writes) : writes[k] = 1

\* C9: there are min(NTHREADS, n) workers, each with a non-empty range, and
\* the sizes of two workers' ranges differ by at most one.
C9_NearEqualRanges ==
    pc \in {"join", "select", "done"} /\ moves # <<>> =>
        /\ Len(threads) = Min(NTHREADS, Len(moves))
        /\ \A t \in 1 .. Len(threads) : RangeOf(threads[t]) # {}
        /\ \A t, u \in 1 .. Len(threads) :
              Cardinality(RangeOf(threads[t])) - Cardinality(RangeOf(threads[u])) <= 1

\* C10: the selector runs, and the call returns, only when every worker has
\* been joined after it finished its whole range; and, the scheduler being
\* fair, every call returns.
C10_JoinBarrier ==
    /\ [](pc \in {"select", "done"} =>
             \A t \in 1 .. Len(threads) :
                 /\ threads[t].pc = "finished" /\ threads[t].joined
                 /\ threads[t].i >= threads[t].end_index)
    /\ <>(pc = "done")

\* C10 witness: the call has returned after joining MaxNThreads workers.
C10_ReturnedAfterJoin ==
    /\ pc = "done" /\ Len(threads) = MaxNThreads
    /\ \A t \in 1 .. Len(threads) : threads[t].joined

\* C11: the root position original_board never changes; a step changes the
\* board of at most one worker, the one that takes the step; and whenever a
\* worker is about to take its next root move, or has finished, its board
\* equals the root position.
C11_PrivateBoards ==
    /\ [](\A t \in 1 .. Len(threads) :
             threads[t].pc \in {"loop", "finished"} => threads[t].board = original_board)
    /\ [][/\ original_board' = original_board
          /\ \A t \in 1 .. Len(threads) :
                threads'[t].board # threads[t].board =>
                    /\ threads'[t].pc # threads[t].pc
                    /\ \A u \in 1 .. Len(threads) : u # t => threads'[u] = threads[u]]_vars

\* C11 witness: a worker starts a later root move of its range on the root
\* position while another worker's board has a move made on it.
C11_ReusedBoardRestored ==
    \E t, u \in 1 .. Len(threads) :
        /\ threads[t].pc = "loop"
        /\ threads[t].i > threads[t].start_index /\ threads[t].i < threads[t].end_index
        /\ threads[t].board = original_board
        /\ threads[u].pc = "unmake" /\ threads[u].board # original_board

\* ------------------------------- part_000: minimax of the earlier version

RECURSIVE minimax_part_000(_, _, _, _, _)
RECURSIVE MaxLoop_part_000(_, _, _, _, _, _, _)
RECURSIVE MinLoop_part_000(_, _, _, _, _, _, _)

\* Bot::minimax of the earlier version: no current_eval, the board is scanned
\* by evaluateBoard at depth 0.
minimax_part_000(b, depth, alpha, beta, maximizing_player) ==
    LET movelist == legalmoves(b)
        game_over == isGameOver(b, movelist)
    IN  IF game_over # RESULT_NONE
        THEN (IF game_over = LOSE
              THEN (IF maximizing_player THEN -MATE_SCORE - depth ELSE MATE_SCORE + depth)
              ELSE 0)
        ELSE IF depth = 0 THEN evaluateBoard(b)
        ELSE IF maximizing_player
        THEN MaxLoop_part_000(b, depth, alpha, beta, orderMoves(movelist, b), 1, INT_MIN)
        ELSE MinLoop_part_000(b, depth, alpha, beta, orderMoves(movelist, b), 1, INT_MAX)

MaxLoop_part_000(b, depth, alpha, beta, movelist, k, best_score) ==
    IF k > Len(movelist) THEN best_score
    ELSE LET eval == minimax_part_000(makeMove(b, movelist[k]), depth - 1, alpha, beta, FALSE)
         IN  IF beta <= Max(alpha, eval) THEN Max(best_score, eval)
             ELSE MaxLoop_part_000(b, depth, Max(alpha, eval), beta, movelist, k + 1,
                                   Max(best_score, eval))

MinLoop_part_000(b, depth, alpha, beta, movelist, k, best_score) ==
    IF k > Len(movelist) THEN best_score
    ELSE LET eval == minimax_part_000(makeMove(b, movelist[k]), depth - 1, alpha, beta, TRUE)
         IN  IF Min(beta, eval) <= alpha THEN Min(best_score, eval)
             ELSE MinLoop_part_000(b, depth, alpha, Min(beta, eval), movelist, k + 1,
                                   Min(best_score, eval))

\* The current_eval a call of minimax was entered with.
EntryEval(f) == IF f.pc = "after" THEN f.old_eval ELSE f.current_eval

\* C12: at every call of minimax current_eval is evaluateBoard of the call's
\* position, also after each child has returned, and the value a worker gets
\* for its root move is the value the earlier version's minimax, which scans
\* the board at depth 0, gives for the same position and depth.
C12_IncrementalIsFullScan ==
    /\ \A k \in 1 .. Len(stack) :
          stack[k].fn = "minimax" =>
              EntryEval(stack[k]) = evaluateBoard(stack[k].entry_board)
    /\ last.valid /\ last.level = 1 =>
          last.value = minimax_part_000(last.entry_board, last.depth, INT_MIN, INT_MAX,
                                        last.maximizing_player)
====
